---- MODULE Spec2Model ----
(***************************************************************************)
(* Credential and token lifecycle of Documents-Exp-API: AuthService over   *)
(* AuthRepository.  The store is the four tables users, refresh_tokens,    *)
(* verification_codes and reset_tokens; every repository call commits, so  *)
(* one repository call (with the in-memory work of the handler that leads  *)
(* to it) is one step of a request.  Spec runs one request at a time,      *)
(* SpecConc interleaves the steps of two requests.                         *)
(*                                                                         *)
(* Name resolution: the service calls repo.update_user / repo.create_user  *)
(* (the repository defines save_user), repo.invalidate (the repository     *)
(* defines invalidate_refresh_token) and create_access_token (auth_util    *)
(* defines create_token); the model follows the call to the definition     *)
(* the repository has.  The service and the repository both address        *)
(* VerificationCode by email and code_hash, and the model keeps those      *)
(* fields.  User.is_active is read by login but no source sets it.         *)
(***************************************************************************)
EXTENDS Integers, FiniteSets, Sequences, TLC

\* ------------------------------------------------------------- bounds
MaxTime == 2       \* the clock runs over 0..MaxTime (one tick = one second)
MaxCalls == 4      \* requests started in one behaviour of Spec
MaxConcCalls == 3  \* requests started in one behaviour of SpecConc
MaxLongCalls == 5  \* requests started in one behaviour of SpecLong

\* settings (core/config.py), in clock ticks
ACCESS_TOKEN_EXPIRE_MINUTES == 1
REFRESH_TOKEN_EXPIRE_MINUTES == 2
EMAIL_VERIFICATION_CODE_EXPIRE_MINUTES == 2
RESET_TOKEN_EXPIRE_MINUTES == 2

Procs == {1, 2}
Emails == {"a@x.com", "b@x.com"}
Passwords == {"Passw0rd1", "Passw0rd2"}
Codes == {"111111", "222222"}

\* ------------------------------------------------------- pure helpers
\* passlib bcrypt digest of a secret; "" is the digest of a reserved user.
\* The salt is left out: no step compares two digests of the same secret.
hash_password(password) == [alg |-> "bcrypt", secret |-> password]
EmptyHash == [alg |-> "", secret |-> ""]

\* pwd_context.verify raises UnknownHashError on a string that is no bcrypt hash
verify_raises(hashed_password) == hashed_password.alg # "bcrypt"
verify_password(plain_password, hashed_password) ==
    hashed_password.alg = "bcrypt" /\ hashed_password.secret = plain_password

\* jwt.encode of {"sub": user id, "exp": now + expires_delta}: HS256 is
\* deterministic and exp is encoded in whole seconds, so the token string is
\* a function of (sub, exp).
create_token(sub, now_, expires_delta) == [sub |-> sub, exp |-> now_ + expires_delta]
NoToken == [sub |-> 0, exp |-> 0]
BogusToken == [sub |-> 0, exp |-> 1]

\* AuthService._create_tokens
create_tokens(user_id, now_) ==
    [access_token  |-> create_token(user_id, now_, ACCESS_TOKEN_EXPIRE_MINUTES),
     refresh_token |-> create_token(user_id, now_, REFRESH_TOKEN_EXPIRE_MINUTES)]
NoTokens == [access_token |-> NoToken, refresh_token |-> NoToken]

\* A reset token string is [sha, v]: the v-th value of secrets.token_urlsafe
\* with sha256().hexdigest() applied sha times.  A hex digest (64 hex digits)
\* is never a token_urlsafe(32) value (43 characters) nor its own digest.
NoResetToken == [sha |-> 0, v |-> 0]

\* a function that stores the value as it is
hash_token_plain(token) == token

\* hashlib.sha256(token.encode()).hexdigest()
hash_token(token) == [token EXCEPT !.sha = @ + 1]

NULL == -1   \* a column left unset

\* ------------------------------------------------------------- state
VARIABLES
    now,                  \* datetime.utcnow(), in ticks
    users,                \* table users
    refresh_tokens,       \* table refresh_tokens
    verification_codes,   \* table verification_codes
    reset_tokens,         \* table reset_tokens
    req,                  \* per request slot: position, inputs, locals, response
    budget                \* requests that may still be started

vars == <<now, users, refresh_tokens, verification_codes, reset_tokens, req, budget>>

\* ------------------------------------------------------------ responses
NoResponse == [status |-> 0, detail |-> "", access_token |-> NoToken,
               refresh_token |-> NoToken, email |-> "", reset_token |-> NoResetToken,
               code |-> ""]
HTTPError(status_code, msg) == [NoResponse EXCEPT !.status = status_code, !.detail = msg]
\* an exception that is no HTTPException: the framework answers 500
ServerError == HTTPError(500, "Internal Server Error")
TokenResponse(tokens, user) ==
    [NoResponse EXCEPT !.status = 200, !.detail = "bearer",
                       !.access_token = tokens.access_token,
                       !.refresh_token = tokens.refresh_token,
                       !.email = user.email]

InvalidCredentials == HTTPError(400, "Email or password is incorrect")
CodeInvalidOrExpired == HTTPError(400, "Verification code is incorrect or has expired")
AlreadyExists == HTTPError(400, "User with this email already exists")
ResetInvalidOrExpired == HTTPError(400, "Reset token is invalid or expired.")
RefreshInvalidOrExpired == HTTPError(401, "Refresh token is invalid or has expired")
RefreshUserNotFound == HTTPError(401, "User associated with the token not found")

CodeSent(code) ==
    [NoResponse EXCEPT !.status = 200, !.detail = "Verification code sent. CODE: ",
                       !.code = code]
GenericAck ==
    [NoResponse EXCEPT !.status = 200,
       !.detail = "If an account with this email exists, a verification code has been sent."]
ResetTokenResponse(reset_token) ==
    [NoResponse EXCEPT !.status = 200, !.detail = "reset_token", !.reset_token = reset_token]
PasswordChanged == [NoResponse EXCEPT !.status = 200, !.detail = "Password changed"]

\* A request slot.  pc is the position in the handler, op the handler; email,
\* password, code, token and reset_token are the request's data; user_id and
\* tokens are the handler's locals; result is the response.  Two fields record
\* the request for the properties and are read by no step: cred, the status
\* in the store of the credential presented, taken at the lookup; wrote,
\* whether a step of the request changed the store.
Idle == [pc |-> "idle", op |-> "none", email |-> "", password |-> "", code |-> "",
         token |-> NoToken, reset_token |-> NoResetToken, user_id |-> 0,
         tokens |-> NoTokens, result |-> NoResponse, cred |-> "na", wrote |-> FALSE]

\* ----------------------------------------------------------- repository
\* is_active of a row created without it (login reads user.is_active)
UserIsActiveDefault == TRUE

NoUser == [id |-> 0, email |-> "", password_hash |-> EmptyHash, is_active |-> FALSE]

get_user_by_id(user_id) ==
    IF \E u \in users : u.id = user_id
    THEN CHOOSE u \in users : u.id = user_id ELSE NoUser

get_user_by_email(email) ==
    IF \E u \in users : u.email = email
    THEN CHOOSE u \in users : u.email = email ELSE NoUser

\* session.add(user); commit: insert, or update of the row with this id.
\* users.email is unique: an insert of a second row with the email raises.
save_user_raises(user) == \E u \in users : u.id # user.id /\ u.email = user.email
save_user(user) == {u \in users : u.id # user.id} \cup {user}

\* the query without its used == False condition
get_active_token_ignoring_used(token) ==
    {r \in refresh_tokens : r.token = token /\ r.expires_at > now}

\* rows an "active refresh token" query returns
get_active_token(token) ==
    {r \in refresh_tokens : r.token = token /\ ~r.used /\ r.expires_at > now}

\* refresh_tokens.token is unique and expires_at is NOT NULL
save_refresh_token_raises(row) ==
    \/ row.expires_at = NULL
    \/ \E r \in refresh_tokens : r.token = row.token
\* an insert that also deletes the rows already used
save_refresh_token_purging(row) == {r \in refresh_tokens : ~r.used} \cup {row}

save_refresh_token(row) == refresh_tokens \cup {row}

invalidate_refresh_token(token) ==
    {IF r.token = token THEN [r EXCEPT !.used = TRUE] ELSE r : r \in refresh_tokens}

\* an update that matches no row
invalidate_all_user_refresh_tokens_noop(user_id) == refresh_tokens

invalidate_all_user_refresh_tokens(user_id) ==
    {IF r.user_id = user_id /\ ~r.used THEN [r EXCEPT !.used = TRUE] ELSE r
        : r \in refresh_tokens}

\* rows the "unused, unexpired code of this email" query returns;
\* scalar_one_or_none raises MultipleResultsFound on more than one
get_verification_code_by_email(email) ==
    {c \in verification_codes : c.email = email /\ ~c.used /\ c.expires_at > now}

save_verification_code(code) == verification_codes \cup {code}

invalidate_all_verifications_codes_by_email(email) ==
    {IF c.email = email /\ ~c.used THEN [c EXCEPT !.used = TRUE] ELSE c
        : c \in verification_codes}

get_reset_token(token) ==
    {t \in reset_tokens : t.token = token /\ t.expires_at > now /\ ~t.used}

save_reset_token(token) == reset_tokens \cup {token}

\* the flag set on the object but never committed
invalidate_reset_token_noop(token) == reset_tokens

invalidate_reset_token(token) ==
    {IF t.token = token THEN [t EXCEPT !.used = TRUE] ELSE t : t \in reset_tokens}

\* status of a presented credential against the rows that carry it
Cred(rows) ==
    IF rows = {} THEN "absent"
    ELSE IF \E r \in rows : ~r.used /\ r.expires_at > now THEN "active"
    ELSE IF \A r \in rows : r.used THEN "used"
    ELSE "expired"

\* ----------------------------------------------------------------- Init
\* One account that completed signup earlier (active or deactivated); the
\* other email is free.
InitWith(max_calls) ==
    /\ now = 0
    /\ \E act \in BOOLEAN :
          users = {[id |-> 1, email |-> "a@x.com",
                    password_hash |-> hash_password("Passw0rd1"), is_active |-> act]}
    /\ refresh_tokens = {}
    /\ verification_codes = {}
    /\ reset_tokens = {}
    /\ req = [p \in Procs |-> Idle]
    /\ budget = max_calls

Init == InitWith(MaxCalls)
InitConc == InitWith(MaxConcCalls)
InitLong == InitWith(MaxLongCalls)

\* The store after signup_send_code(b@x.com) and verify_reset_code(b@x.com)
\* with the delivered code, both at second 0: the reserved row, the consumed
\* code and the reset token that was returned.  Two requests are spent.
InitAfterVerify ==
    /\ now = 0
    /\ users = {[id |-> 1, email |-> "a@x.com",
                 password_hash |-> hash_password("Passw0rd1"), is_active |-> TRUE],
                [id |-> 2, email |-> "b@x.com",
                 password_hash |-> EmptyHash, is_active |-> UserIsActiveDefault]}
    /\ refresh_tokens = {}
    /\ verification_codes =
          {[id |-> 1, email |-> "b@x.com", code_hash |-> hash_password("111111"),
            expires_at |-> EMAIL_VERIFICATION_CODE_EXPIRE_MINUTES, used |-> TRUE]}
    /\ reset_tokens =
          {[user_id |-> 2, token |-> hash_token([sha |-> 0, v |-> 1]),
            expires_at |-> RESET_TOKEN_EXPIRE_MINUTES, used |-> FALSE]}
    /\ req = [p \in Procs |-> Idle]
    /\ budget = MaxConcCalls - 1

Tick ==
    /\ now < MaxTime
    /\ now' = now + 1
    /\ UNCHANGED <<users, refresh_tokens, verification_codes, reset_tokens, req, budget>>

\* a request enters the service
Begin(p) ==
    /\ req[p].pc = "idle"
    /\ (p = 2 => req[1].pc # "idle")   \* a request takes the first free slot
    /\ budget > 0
    /\ budget' = budget - 1

\* raise HTTPException / propagate an exception: the request ends
Finish(p, r, response) == [r EXCEPT !.pc = "done", !.result = response]

\* the response has been sent; the slot takes the next request
Return(p) ==
    /\ req[p].pc = "done"
    /\ req' = [req EXCEPT ![p] = Idle]
    /\ UNCHANGED <<now, users, refresh_tokens, verification_codes, reset_tokens, budget>>

\* ---------------------------------------------------------------- login
\* lines 38-62: get_user_by_email, the three checks, _create_tokens
login_check(p) ==
    /\ Begin(p)
    /\ \E email \in Emails, password \in Passwords :
        LET user == get_user_by_email(email)
            r == [Idle EXCEPT !.op = "login", !.email = email, !.password = password]
        IN req' = [req EXCEPT ![p] =
              IF user = NoUser THEN Finish(p, r, InvalidCredentials)
              ELSE IF ~user.is_active THEN Finish(p, r, InvalidCredentials)
              ELSE IF verify_raises(user.password_hash) THEN Finish(p, r, ServerError)
              ELSE IF ~verify_password(password, user.password_hash)
                   THEN Finish(p, r, InvalidCredentials)
              ELSE [r EXCEPT !.pc = "login_invalidate", !.user_id = user.id,
                             !.tokens = create_tokens(user.id, now)]]
    /\ UNCHANGED <<now, users, refresh_tokens, verification_codes, reset_tokens>>

\* line 65
login_invalidate(p) ==
    /\ req[p].pc = "login_invalidate"
    /\ refresh_tokens' = invalidate_all_user_refresh_tokens(req[p].user_id)
    /\ req' = [req EXCEPT ![p].pc = "login_save",
                          ![p].wrote = (req[p].wrote \/ refresh_tokens' # refresh_tokens)]
    /\ UNCHANGED <<now, users, verification_codes, reset_tokens, budget>>

\* lines 68-82
login_save(p) ==
    /\ req[p].pc = "login_save"
    /\ LET row == [token |-> req[p].tokens.refresh_token, user_id |-> req[p].user_id,
                   expires_at |-> now + REFRESH_TOKEN_EXPIRE_MINUTES, used |-> FALSE]
       IN IF save_refresh_token_raises(row)
          THEN /\ req' = [req EXCEPT ![p] = Finish(p, req[p], ServerError)]
               /\ UNCHANGED refresh_tokens
          ELSE /\ refresh_tokens' = save_refresh_token(row)
               /\ req' = [req EXCEPT ![p] =
                     Finish(p, [req[p] EXCEPT !.wrote = TRUE],
                            TokenResponse(req[p].tokens, get_user_by_id(req[p].user_id)))]
    /\ UNCHANGED <<now, users, verification_codes, reset_tokens, budget>>

\* -------------------------------------------------------------- refresh
\* token strings a client can present: any that was stored, or a made-up one
PresentableTokens == {r.token : r \in refresh_tokens} \cup {BogusToken}

\* lines 367-376: get_active_token and the single error
refresh_get(p) ==
    /\ Begin(p)
    /\ \E token \in PresentableTokens :
        LET found == get_active_token(token)
            r == [Idle EXCEPT !.op = "refresh", !.token = token,
                              !.cred = Cred({x \in refresh_tokens : x.token = token})]
        IN req' = [req EXCEPT ![p] =
              IF found = {} THEN Finish(p, r, RefreshInvalidOrExpired)
              ELSE [r EXCEPT !.pc = "refresh_invalidate",
                             !.user_id = (CHOOSE x \in found : TRUE).user_id]]
    /\ UNCHANGED <<now, users, refresh_tokens, verification_codes, reset_tokens>>

\* line 379
refresh_invalidate(p) ==
    /\ req[p].pc = "refresh_invalidate"
    /\ refresh_tokens' = invalidate_refresh_token(req[p].token)
    /\ req' = [req EXCEPT ![p].pc = "refresh_user",
                          ![p].wrote = (req[p].wrote \/ refresh_tokens' # refresh_tokens)]
    /\ UNCHANGED <<now, users, verification_codes, reset_tokens, budget>>

\* lines 382-390: get_user_by_id, _create_tokens
refresh_user(p) ==
    /\ req[p].pc = "refresh_user"
    /\ LET user == get_user_by_id(req[p].user_id)
       IN req' = [req EXCEPT ![p] =
             IF user = NoUser THEN Finish(p, req[p], RefreshUserNotFound)
             ELSE [req[p] EXCEPT !.pc = "refresh_save",
                                 !.tokens = create_tokens(user.id, now)]]
    /\ UNCHANGED <<now, users, refresh_tokens, verification_codes, reset_tokens, budget>>

\* the call as one transaction: the failed insert undoes the invalidation
refresh_save_rollback(p) ==
    /\ req[p].pc = "refresh_save"
    /\ LET row == [token |-> req[p].tokens.refresh_token, user_id |-> req[p].user_id,
                   expires_at |-> now + REFRESH_TOKEN_EXPIRE_MINUTES, used |-> FALSE]
       IN IF save_refresh_token_raises(row)
          THEN /\ req' = [req EXCEPT ![p] = Finish(p, req[p], ServerError)]
               /\ refresh_tokens' =
                     {IF r.token = req[p].token THEN [r EXCEPT !.used = FALSE] ELSE r
                         : r \in refresh_tokens}
          ELSE /\ refresh_tokens' = save_refresh_token(row)
               /\ req' = [req EXCEPT ![p] =
                     Finish(p, [req[p] EXCEPT !.wrote = TRUE],
                            TokenResponse(req[p].tokens, get_user_by_id(req[p].user_id)))]
    /\ UNCHANGED <<now, users, verification_codes, reset_tokens, budget>>

\* lines 393-405
refresh_save(p) ==
    /\ req[p].pc = "refresh_save"
    /\ LET row == [token |-> req[p].tokens.refresh_token, user_id |-> req[p].user_id,
                   expires_at |-> now + REFRESH_TOKEN_EXPIRE_MINUTES, used |-> FALSE]
       IN IF save_refresh_token_raises(row)
          THEN /\ req' = [req EXCEPT ![p] = Finish(p, req[p], ServerError)]
               /\ UNCHANGED refresh_tokens
          ELSE /\ refresh_tokens' = save_refresh_token(row)
               /\ req' = [req EXCEPT ![p] =
                     Finish(p, [req[p] EXCEPT !.wrote = TRUE],
                            TokenResponse(req[p].tokens, get_user_by_id(req[p].user_id)))]
    /\ UNCHANGED <<now, users, verification_codes, reset_tokens, budget>>

\* ----------------------------------------------------- signup_send_code
\* a check that lets every email through
email_taken_never(user) == FALSE

\* lines 165-169: "if user is not None", whatever the row's digest
email_taken(user) == user # NoUser

\* lines 162-171: the email must have no user row; generate_verification_code
send_code_check(p) ==
    /\ Begin(p)
    /\ \E email \in Emails, code \in Codes :
        LET user == get_user_by_email(email)
            r == [Idle EXCEPT !.op = "signup_send_code", !.email = email]
        IN req' = [req EXCEPT ![p] =
              IF email_taken(user) THEN Finish(p, r, AlreadyExists)
              ELSE [r EXCEPT !.pc = "send_code_invalidate", !.code = code]]
    /\ UNCHANGED <<now, users, refresh_tokens, verification_codes, reset_tokens>>

\* line 174
send_code_invalidate(p) ==
    /\ req[p].pc = "send_code_invalidate"
    /\ verification_codes' = invalidate_all_verifications_codes_by_email(req[p].email)
    /\ req' = [req EXCEPT ![p].pc = "send_code_save",
                 ![p].wrote = (req[p].wrote \/ verification_codes' # verification_codes)]
    /\ UNCHANGED <<now, users, refresh_tokens, reset_tokens, budget>>

\* a new verification_codes row (lines 177-183, 230-236)
VerificationCode(email, code) ==
    [id |-> Cardinality(verification_codes) + 1, email |-> email,
     code_hash |-> hash_password(code),
     expires_at |-> now + EMAIL_VERIFICATION_CODE_EXPIRE_MINUTES, used |-> FALSE]

\* lines 177-188
send_code_save(p) ==
    /\ req[p].pc = "send_code_save"
    /\ verification_codes' =
          save_verification_code(VerificationCode(req[p].email, req[p].code))
    /\ req' = [req EXCEPT ![p].pc = "send_code_reserve", ![p].wrote = TRUE]
    /\ UNCHANGED <<now, users, refresh_tokens, reset_tokens, budget>>

\* lines 191-198: the reserved profile, password_hash=""
send_code_reserve(p) ==
    /\ req[p].pc = "send_code_reserve"
    /\ LET user == [id |-> Cardinality(users) + 1, email |-> req[p].email,
                    password_hash |-> EmptyHash, is_active |-> UserIsActiveDefault]
       IN IF save_user_raises(user)
          THEN /\ req' = [req EXCEPT ![p] = Finish(p, req[p], ServerError)]
               /\ UNCHANGED users
          ELSE /\ users' = save_user(user)
               /\ req' = [req EXCEPT ![p] = Finish(p, req[p], CodeSent(req[p].code))]
    /\ UNCHANGED <<now, refresh_tokens, verification_codes, reset_tokens, budget>>

\* --------------------------------------------------------------- signup
\* verification_codes rows of the email that the presented code verifies against
CodeRows(email, code) ==
    {c \in verification_codes : c.email = email /\ verify_password(code, c.code_hash)}

\* lines 102-116: the code lookup and the code check
signup_code(p) ==
    /\ Begin(p)
    /\ \E email \in Emails, code \in Codes, password \in Passwords :
        LET found == get_verification_code_by_email(email)
            r == [Idle EXCEPT !.op = "signup", !.email = email, !.code = code,
                              !.password = password,
                              !.cred = Cred(CodeRows(email, code))]
        IN req' = [req EXCEPT ![p] =
              IF Cardinality(found) > 1 THEN Finish(p, r, ServerError)
              ELSE IF found = {} THEN Finish(p, r, CodeInvalidOrExpired)
              ELSE IF ~verify_password(code, (CHOOSE c \in found : TRUE).code_hash)
                   THEN Finish(p, r, CodeInvalidOrExpired)
              ELSE [r EXCEPT !.pc = "signup_user"]]
    /\ UNCHANGED <<now, users, refresh_tokens, verification_codes, reset_tokens>>

\* line 119; user.password_hash on None raises
signup_user(p) ==
    /\ req[p].pc = "signup_user"
    /\ LET user == get_user_by_email(req[p].email)
       IN req' = [req EXCEPT ![p] =
             IF user = NoUser THEN Finish(p, req[p], ServerError)
             ELSE [req[p] EXCEPT !.pc = "signup_update", !.user_id = user.id]]
    /\ UNCHANGED <<now, users, refresh_tokens, verification_codes, reset_tokens, budget>>

\* lines 122-126
signup_update(p) ==
    /\ req[p].pc = "signup_update"
    /\ users' = save_user([get_user_by_id(req[p].user_id) EXCEPT
                              !.password_hash = hash_password(req[p].password)])
    /\ req' = [req EXCEPT ![p].pc = "signup_save",
                          ![p].wrote = (req[p].wrote \/ users' # users)]
    /\ UNCHANGED <<now, refresh_tokens, verification_codes, reset_tokens, budget>>

\* lines 129-145: RefreshToken(token, user_id) leaves expires_at unset.  The
\* response and the invalidation of the codes follow the save.
signup_save(p) ==
    /\ req[p].pc = "signup_save"
    /\ LET tokens == create_tokens(req[p].user_id, now)
           row == [token |-> tokens.refresh_token, user_id |-> req[p].user_id,
                   expires_at |-> NULL, used |-> FALSE]
       IN IF save_refresh_token_raises(row)
          THEN /\ req' = [req EXCEPT ![p] = Finish(p, req[p], ServerError)]
               /\ UNCHANGED <<refresh_tokens, verification_codes>>
          ELSE /\ refresh_tokens' = save_refresh_token(row)
               /\ verification_codes' =
                     invalidate_all_verifications_codes_by_email(req[p].email)
               /\ req' = [req EXCEPT ![p] =
                     Finish(p, [req[p] EXCEPT !.tokens = tokens],
                            TokenResponse(tokens, get_user_by_id(req[p].user_id)))]
    /\ UNCHANGED <<now, users, reset_tokens, budget>>

\* ----------------------------------------------- request_password_reset
\* a response that tells whether the account exists
request_password_reset_leaky(user) ==
    IF user = NoUser THEN HTTPError(404, "User not found") ELSE GenericAck

\* line 242: the one return statement, after the "if user:" block
request_password_reset_response(user) == GenericAck

\* lines 218-227, 242
forgot_check(p) ==
    /\ Begin(p)
    /\ \E email \in Emails, code \in Codes :
        LET user == get_user_by_email(email)
            r == [Idle EXCEPT !.op = "request_password_reset", !.email = email]
        IN req' = [req EXCEPT ![p] =
              IF user = NoUser THEN Finish(p, r, request_password_reset_response(user))
              ELSE [r EXCEPT !.pc = "forgot_save", !.code = code]]
    /\ UNCHANGED <<now, users, refresh_tokens, verification_codes, reset_tokens>>

\* lines 230-237
forgot_save(p) ==
    /\ req[p].pc = "forgot_save"
    /\ verification_codes' =
          save_verification_code(VerificationCode(req[p].email, req[p].code))
    /\ req' = [req EXCEPT ![p].pc = "forgot_invalidate", ![p].wrote = TRUE]
    /\ UNCHANGED <<now, users, refresh_tokens, reset_tokens, budget>>

\* lines 240-242
forgot_invalidate(p) ==
    /\ req[p].pc = "forgot_invalidate"
    /\ verification_codes' = invalidate_all_verifications_codes_by_email(req[p].email)
    /\ req' = [req EXCEPT ![p] =
          Finish(p, req[p],
                 request_password_reset_response(get_user_by_email(req[p].email)))]
    /\ UNCHANGED <<now, users, refresh_tokens, reset_tokens, budget>>

\* ---------------------------------------------------- verify_reset_code
\* lines 258-267
verify_user(p) ==
    /\ Begin(p)
    /\ \E email \in Emails, code \in Codes :
        LET user == get_user_by_email(email)
            r == [Idle EXCEPT !.op = "verify_reset_code", !.email = email, !.code = code]
        IN req' = [req EXCEPT ![p] =
              IF user = NoUser THEN Finish(p, r, CodeInvalidOrExpired)
              ELSE [r EXCEPT !.pc = "verify_code", !.user_id = user.id]]
    /\ UNCHANGED <<now, users, refresh_tokens, verification_codes, reset_tokens>>

\* a check that consumes the stored code on a wrong attempt
verify_code_burning(p) ==
    /\ req[p].pc = "verify_code"
    /\ LET found == get_verification_code_by_email(req[p].email)
           r == [req[p] EXCEPT !.cred = Cred(CodeRows(req[p].email, req[p].code))]
           wrong == /\ Cardinality(found) = 1
                    /\ ~verify_password(req[p].code, (CHOOSE c \in found : TRUE).code_hash)
       IN /\ req' = [req EXCEPT ![p] =
                IF Cardinality(found) > 1 THEN Finish(p, r, ServerError)
                ELSE IF found = {} THEN Finish(p, r, CodeInvalidOrExpired)
                ELSE IF wrong THEN Finish(p, r, CodeInvalidOrExpired)
                ELSE [r EXCEPT !.pc = "verify_save"]]
          /\ verification_codes' =
                IF wrong THEN invalidate_all_verifications_codes_by_email(req[p].email)
                ELSE verification_codes
    /\ UNCHANGED <<now, users, refresh_tokens, reset_tokens, budget>>

\* lines 270-283
verify_code(p) ==
    /\ req[p].pc = "verify_code"
    /\ LET found == get_verification_code_by_email(req[p].email)
           r == [req[p] EXCEPT !.cred = Cred(CodeRows(req[p].email, req[p].code))]
       IN req' = [req EXCEPT ![p] =
             IF Cardinality(found) > 1 THEN Finish(p, r, ServerError)
             ELSE IF found = {} THEN Finish(p, r, CodeInvalidOrExpired)
             ELSE IF ~verify_password(req[p].code, (CHOOSE c \in found : TRUE).code_hash)
                  THEN Finish(p, r, CodeInvalidOrExpired)
             ELSE [r EXCEPT !.pc = "verify_save"]]
    /\ UNCHANGED <<now, users, refresh_tokens, verification_codes, reset_tokens, budget>>

\* secrets.token_urlsafe: a value no earlier call returned
create_reset_token == [sha |-> 0, v |-> Cardinality(reset_tokens) + 1]

\* lines 286-300
verify_save(p) ==
    /\ req[p].pc = "verify_save"
    /\ LET reset_token == create_reset_token
       IN /\ reset_tokens' = save_reset_token(
                [user_id |-> req[p].user_id, token |-> hash_token(reset_token),
                 expires_at |-> now + RESET_TOKEN_EXPIRE_MINUTES, used |-> FALSE])
          /\ req' = [req EXCEPT ![p].pc = "verify_invalidate",
                                ![p].reset_token = reset_token, ![p].wrote = TRUE]
    /\ UNCHANGED <<now, users, refresh_tokens, verification_codes, budget>>

\* lines 303-305
verify_invalidate(p) ==
    /\ req[p].pc = "verify_invalidate"
    /\ verification_codes' = invalidate_all_verifications_codes_by_email(req[p].email)
    /\ req' = [req EXCEPT ![p] =
          Finish(p, req[p], ResetTokenResponse(req[p].reset_token))]
    /\ UNCHANGED <<now, users, refresh_tokens, reset_tokens, budget>>

\* ------------------------------------------------------- reset_password
\* reset tokens a client can present: any that was returned, a made-up one, or
\* a value read from the token column
PresentableResetTokens ==
    {[sha |-> 0, v |-> n] : n \in 0 .. Cardinality(reset_tokens)}
        \cup {t.token : t \in reset_tokens}

\* lines 321-327
reset_get(p) ==
    /\ Begin(p)
    /\ \E reset_token \in PresentableResetTokens, password \in Passwords :
        LET token_hash == hash_token(reset_token)
            found == get_reset_token(token_hash)
            r == [Idle EXCEPT !.op = "reset_password", !.reset_token = reset_token,
                              !.password = password,
                              !.cred = Cred({t \in reset_tokens : t.token = token_hash})]
        IN req' = [req EXCEPT ![p] =
              IF found = {} THEN Finish(p, r, ResetInvalidOrExpired)
              ELSE [r EXCEPT !.pc = "reset_user",
                             !.user_id = (CHOOSE t \in found : TRUE).user_id]]
    /\ UNCHANGED <<now, users, refresh_tokens, verification_codes, reset_tokens>>

\* lines 330-338
reset_user(p) ==
    /\ req[p].pc = "reset_user"
    /\ LET user == get_user_by_id(req[p].user_id)
       IN req' = [req EXCEPT ![p] =
             IF user = NoUser THEN Finish(p, req[p], ResetInvalidOrExpired)
             ELSE [req[p] EXCEPT !.pc = "reset_update"]]
    /\ UNCHANGED <<now, users, refresh_tokens, verification_codes, reset_tokens, budget>>

\* lines 341-342
reset_update(p) ==
    /\ req[p].pc = "reset_update"
    /\ users' = save_user([get_user_by_id(req[p].user_id) EXCEPT
                              !.password_hash = hash_password(req[p].password)])
    /\ req' = [req EXCEPT ![p].pc = "reset_invalidate",
                          ![p].wrote = (req[p].wrote \/ users' # users)]
    /\ UNCHANGED <<now, refresh_tokens, verification_codes, reset_tokens, budget>>

\* lines 345-347
reset_invalidate(p) ==
    /\ req[p].pc = "reset_invalidate"
    /\ reset_tokens' = invalidate_reset_token(hash_token(req[p].reset_token))
    /\ req' = [req EXCEPT ![p] = Finish(p, [req[p] EXCEPT !.wrote = TRUE], PasswordChanged)]
    /\ UNCHANGED <<now, users, refresh_tokens, verification_codes, budget>>

\* ----------------------------------------------------- get_current_user
\* auth_util.py lines 15-19
Unauthenticated == HTTPError(401, "Could not validate credentials")
\* line 68: the User row
UserResponse(user) == [NoResponse EXCEPT !.status = 200, !.detail = "user",
                                         !.email = user.email]

\* Bearer strings.  form "jwt": a JWT signed with SECRET_KEY whose payload is
\* {sub: str(token.sub), exp: token.exp}; "bad_signature": the same with
\* another signature; "malformed": no JWT; "no_sub": signed, payload {exp};
\* "bad_sub": signed, sub a string that is no number.  The signed payloads are
\* every stored refresh token, an access token issued now and one that expired
\* a second ago, each for a user id in use and for one that is not.
BearerForms == {"jwt", "bad_signature", "malformed", "no_sub", "bad_sub"}
Bearers ==
    {[form |-> "jwt", token |-> t] :
        t \in {r.token : r \in refresh_tokens}
              \cup {[sub |-> s, exp |-> e] :
                       s \in {1, Cardinality(users) + 1},
                       e \in {now - 1, now + ACCESS_TOKEN_EXPIRE_MINUTES}}}
      \cup {[form |-> f, token |-> create_token(1, now, ACCESS_TOKEN_EXPIRE_MINUTES)] :
               f \in BearerForms \ {"jwt"}}

\* lines 47-51, 60-61: jwt.decode raises a JWTError on a string that is no
\* JWT, on a signature that does not verify and on exp < now
jwt_decode_raises(bearer) ==
    \/ bearer.form \in {"malformed", "bad_signature"}
    \/ bearer.token.exp < now

\* line 53: int(payload.get("sub")) raises TypeError on None and ValueError
\* on a string that is no number; neither is a JWTError
int_sub_raises(bearer) == bearer.form \in {"no_sub", "bad_sub"}

\* what the bearer string is, by the cases of the guard's contract
BearerCase(bearer) ==
    IF bearer.form # "jwt" THEN bearer.form
    ELSE IF bearer.token.exp < now THEN "expired"
    ELSE IF \A u \in users : u.id # bearer.token.sub THEN "unknown_user"
    ELSE "valid"

\* lines 46-68
get_current_user(p) ==
    /\ Begin(p)
    /\ \E bearer \in Bearers :
        LET user == get_user_by_id(bearer.token.sub)
            r == [Idle EXCEPT !.op = "get_current_user", !.token = bearer.token,
                              !.cred = BearerCase(bearer)]
        IN req' = [req EXCEPT ![p] =
              IF jwt_decode_raises(bearer) THEN Finish(p, r, Unauthenticated)
              ELSE IF int_sub_raises(bearer) THEN Finish(p, r, ServerError)
              ELSE IF user = NoUser THEN Finish(p, r, Unauthenticated)
              ELSE Finish(p, [r EXCEPT !.user_id = user.id], UserResponse(user))]
    /\ UNCHANGED <<now, users, refresh_tokens, verification_codes, reset_tokens>>

\* ---------------------------------------------------- request schemas
\* A password at the boundary is described by how many characters of each
\* class it has: the validators read nothing else of it.
PasswordCounts == {0, 1, 6, 70}
CandidatePasswords ==
    [upper : PasswordCounts, lower : PasswordCounts,
     digit : PasswordCounts, space : PasswordCounts]
PasswordLen(password) ==
    password.upper + password.lower + password.digit + password.space

\* Field(min_length=8, max_length=72)
PASSWORD_MIN_LENGTH == 8
PASSWORD_MAX_LENGTH == 72

\* SignupSchema.validate_password: isspace, isdigit, isalpha, isupper
SignupSchema_validate_password(password) ==
    /\ password.space = 0
    /\ password.digit > 0
    /\ password.upper + password.lower > 0
    /\ password.upper > 0

\* SignupSchema: password: str
SignupSchema(password) == SignupSchema_validate_password(password)

\* ResetPasswordSchema.validate_password
ResetPasswordSchema_validate_password(password) ==
    /\ password.space = 0
    /\ password.digit > 0
    /\ password.upper + password.lower > 0
    /\ password.upper > 0

\* ResetPasswordSchema: password: str = Field(min_length=8, max_length=72)
ResetPasswordSchema(password) ==
    /\ PasswordLen(password) >= PASSWORD_MIN_LENGTH
    /\ PasswordLen(password) <= PASSWORD_MAX_LENGTH
    /\ ResetPasswordSchema_validate_password(password)

\* pydantic's answer to a body that fails validation, and the body passed on
ValidationError == HTTPError(422, "Unprocessable Entity")
Validated == [NoResponse EXCEPT !.detail = "validated"]

\* the body of POST /auth/signup is parsed
signup_boundary(p) ==
    /\ Begin(p)
    /\ \E password \in CandidatePasswords :
          req' = [req EXCEPT ![p] =
             Finish(p, [Idle EXCEPT !.op = "SignupSchema", !.password = password],
                    IF SignupSchema(password) THEN Validated ELSE ValidationError)]
    /\ UNCHANGED <<now, users, refresh_tokens, verification_codes, reset_tokens>>

\* the body of the change-password request is parsed
reset_password_boundary(p) ==
    /\ Begin(p)
    /\ \E password \in CandidatePasswords :
          req' = [req EXCEPT ![p] =
             Finish(p, [Idle EXCEPT !.op = "ResetPasswordSchema", !.password = password],
                    IF ResetPasswordSchema(password) THEN Validated ELSE ValidationError)]
    /\ UNCHANGED <<now, users, refresh_tokens, verification_codes, reset_tokens>>

\* ----------------------------------------------------------------- Next
Step(p) ==
    \/ login_check(p) \/ login_invalidate(p) \/ login_save(p)
    \/ refresh_get(p) \/ refresh_invalidate(p) \/ refresh_user(p) \/ refresh_save(p)
    \/ send_code_check(p) \/ send_code_invalidate(p) \/ send_code_save(p)
    \/ send_code_reserve(p)
    \/ signup_code(p) \/ signup_user(p) \/ signup_update(p) \/ signup_save(p)
    \/ forgot_check(p) \/ forgot_save(p) \/ forgot_invalidate(p)
    \/ verify_user(p) \/ verify_code(p) \/ verify_save(p) \/ verify_invalidate(p)
    \/ reset_get(p) \/ reset_user(p) \/ reset_update(p) \/ reset_invalidate(p)
    \/ Return(p)

\* one request at a time
Next == Tick \/ Step(1)
Spec == Init /\ [][Next]_vars

\* two requests, interleaved at every repository call
NextConc == Tick \/ \E p \in Procs : Step(p)
SpecConc == InitConc /\ [][NextConc]_vars

\* two interleaved requests, started from the initial store or from the store
\* that holds a reset token
SpecConcReset == (InitConc \/ InitAfterVerify) /\ [][NextConc]_vars

\* the request bodies that carry a new password, parsed one at a time
NextBoundary == signup_boundary(1) \/ reset_password_boundary(1) \/ Return(1)
SpecBoundary == Init /\ [][NextBoundary]_vars

\* one request at a time, the requests that pass the guard included
NextGuard == Next \/ get_current_user(1)
SpecGuard == Init /\ [][NextGuard]_vars

\* one request at a time, one more request: a signup, a login and a password
\* reset of the same new account take five
SpecLong == InitLong /\ [][Next]_vars

\* ================================================================ claims
Done(p) == req[p].pc = "done"
UnusedRefreshTokens(user_id) == {r \in refresh_tokens : r.user_id = user_id /\ ~r.used}
UnusedCodes(email) == {c \in verification_codes : c.email = email /\ ~c.used}

\* C1: refresh(r) of a refresh token r that is stored, unused and unexpired
\* succeeds and returns a new pair; refresh(r) of a token already used fails
\* with the refresh InvalidOrExpired error.  (One request at a time.)
C1_RefreshTwice ==
    (Done(1) /\ req[1].op = "refresh") =>
        /\ req[1].cred = "active" =>
              /\ req[1].result.status = 200
              /\ req[1].result.refresh_token # NoToken
        /\ req[1].cred = "used" => req[1].result = RefreshInvalidOrExpired

\* C2: of two concurrent refresh calls that present the same token, at most
\* one succeeds.
C2_AtMostOneRefreshSucceeds ==
    ~ /\ Done(1) /\ Done(2)
      /\ req[1].op = "refresh" /\ req[2].op = "refresh"
      /\ req[1].token = req[2].token
      /\ req[1].result.status = 200 /\ req[2].result.status = 200

\* C3: when a login has succeeded, the user's unused refresh tokens are
\* exactly the one the login returned; every other token of the user is used.
C3_LoginLeavesOneUnused ==
    (Done(1) /\ req[1].op = "login" /\ req[1].result.status = 200) =>
        /\ Cardinality(UnusedRefreshTokens(req[1].user_id)) = 1
        /\ \A r \in UnusedRefreshTokens(req[1].user_id) :
              r.token = req[1].result.refresh_token

\* a login succeeded for a user who held an earlier token, now used
C3_Witness ==
    /\ Done(1) /\ req[1].op = "login" /\ req[1].result.status = 200
    /\ \E r \in refresh_tokens : r.user_id = req[1].user_id /\ r.used

\* C4: in every state of the store, every email has at most one
\* verification code with used = false.
C4_AtMostOneUnusedCode ==
    \A email \in Emails : Cardinality(UnusedCodes(email)) <= 1

\* C5: when request_password_reset has returned for the email of an
\* existing user, exactly one unused, unexpired code is stored for the email.
C5_ResetCodeUsable ==
    (/\ Done(1) /\ req[1].op = "request_password_reset"
     /\ get_user_by_email(req[1].email) # NoUser) =>
        Cardinality(get_verification_code_by_email(req[1].email)) = 1

\* C6: change-password with a stored, unused, unexpired reset token succeeds,
\* sets the bound user's digest to hash(newPassword) and marks the token used;
\* change-password with a token already used fails with the reset
\* InvalidOrExpired error and writes nothing.
C6_ResetTokenSingleUse ==
    (Done(1) /\ req[1].op = "reset_password") =>
        /\ req[1].cred = "active" =>
              /\ req[1].result = PasswordChanged
              /\ get_user_by_id(req[1].user_id).password_hash
                    = hash_password(req[1].password)
              /\ \A t \in reset_tokens :
                    t.token = hash_token(req[1].reset_token) => t.used
        /\ req[1].cred = "used" =>
              /\ req[1].result = ResetInvalidOrExpired
              /\ ~req[1].wrote

\* a second change-password with a token that an earlier one consumed
C6_Witness ==
    /\ Done(1) /\ req[1].op = "reset_password" /\ req[1].cred = "used"
    /\ \E u \in users : u.password_hash.alg = "bcrypt" /\ u.id # 1

\* C7: signup-verify with a code that matches no unused, unexpired code of
\* the email fails with the code InvalidOrExpired error and writes nothing;
\* with the delivered code it succeeds, sets the digest, returns a token pair
\* and the reserved email, and leaves no unused code for the email.
C7_SignupScenario ==
    (Done(1) /\ req[1].op = "signup") =>
        /\ req[1].cred # "active" =>
              /\ req[1].result = CodeInvalidOrExpired
              /\ ~req[1].wrote
        /\ req[1].cred = "active" =>
              /\ req[1].result.status = 200
              /\ req[1].result.refresh_token # NoToken
              /\ req[1].result.email = req[1].email
              /\ get_user_by_email(req[1].email).password_hash
                    = hash_password(req[1].password)
              /\ UnusedCodes(req[1].email) = {}

\* the single error of each operation that consumes a credential
CredentialError(op) ==
    CASE op = "refresh" -> RefreshInvalidOrExpired
      [] op = "reset_password" -> ResetInvalidOrExpired
      [] OTHER -> CodeInvalidOrExpired

\* C8: refresh, signup-verify, verify-reset-code and change-password answer a
\* credential that is used or expired with the error they answer to a
\* credential that does not exist, and never succeed with it.
C8_Indistinguishable ==
    (/\ Done(1)
     /\ req[1].op \in {"refresh", "signup", "verify_reset_code", "reset_password"}
     /\ req[1].cred \in {"absent", "used", "expired"}) =>
        req[1].result = CredentialError(req[1].op)

\* a refresh that presented a token an earlier refresh or login had consumed
C8_Witness ==
    /\ Done(1) /\ req[1].op = "refresh" /\ req[1].cred = "used"
    /\ req[1].result = RefreshInvalidOrExpired

\* C9: a login for an unknown email, for a known email with a password that
\* is not the account's, or for an inactive account ends with the one
\* InvalidCredentials error and writes nothing.
C9_LoginErrorsIdentical ==
    LET user == get_user_by_email(req[1].email) IN
    (/\ Done(1) /\ req[1].op = "login"
     /\ \/ user = NoUser
        \/ ~user.is_active
        \/ ~verify_password(req[1].password, user.password_hash)) =>
        /\ req[1].result = InvalidCredentials
        /\ ~req[1].wrote

\* C10: request_password_reset answers the same acknowledgement whether or
\* not a user with the email exists.
C10_SameAcknowledgement ==
    \A p \in Procs :
        (Done(p) /\ req[p].op = "request_password_reset") => req[p].result = GenericAck

\* the acknowledgement for a known email, after its code was written
C10_Witness ==
    /\ Done(1) /\ req[1].op = "request_password_reset"
    /\ get_user_by_email(req[1].email) # NoUser /\ req[1].wrote
    /\ req[1].result = GenericAck

\* C11: when change-password has succeeded for a user, no refresh token of
\* that user has used = false (so refresh rejects every token issued to the
\* user before the change).
C11_PasswordChangeRevokesSessions ==
    (Done(1) /\ req[1].op = "reset_password" /\ req[1].result = PasswordChanged) =>
        UnusedRefreshTokens(req[1].user_id) = {}

\* C12: a record with used = true keeps used = true in every step: no step
\* removes it, changes it, or adds a record with its key and used = false.
\* This holds for RefreshToken, ResetToken and VerificationCode records, and
\* so for the token a refresh has marked, whatever the later steps of that
\* refresh do.
C12_UsedIsPermanent ==
    [][/\ \A r \in refresh_tokens : r.used =>
             /\ r \in refresh_tokens'
             /\ \A x \in refresh_tokens' : x.token = r.token => x.used
       /\ \A t \in reset_tokens : t.used =>
             /\ t \in reset_tokens'
             /\ \A x \in reset_tokens' : x.token = t.token => x.used
       /\ \A c \in verification_codes : c.used =>
             /\ c \in verification_codes'
             /\ \A x \in verification_codes' : x.id = c.id => x.used]_vars

\* a refresh that marked its token and then failed to persist the replacement
C12_Witness ==
    /\ Done(1) /\ req[1].op = "refresh" /\ req[1].result = ServerError
    /\ \E r \in refresh_tokens : r.token = req[1].token /\ r.used

\* C13: signup_send_code for the email of an active user that has completed
\* signup ends with AlreadyExists and has changed nothing in the store.
C13_SendCodeAlreadyExists ==
    LET user == get_user_by_email(req[1].email) IN
    (/\ Done(1) /\ req[1].op = "signup_send_code"
     /\ user # NoUser /\ user.is_active /\ user.password_hash # EmptyHash) =>
        /\ req[1].result = AlreadyExists
        /\ ~req[1].wrote

\* the refusal for the account a@x.com while codes of another email are stored
C13_Witness ==
    /\ Done(1) /\ req[1].op = "signup_send_code" /\ req[1].email = "a@x.com"
    /\ get_user_by_email("a@x.com").is_active
    /\ req[1].result = AlreadyExists
    /\ verification_codes # {}

\* C14: signup_send_code for an email whose user row is a reservation (empty
\* digest) succeeds; afterwards the email has exactly one user row and exactly
\* one unused code, the one this call delivered.
C14_ResendToReservation ==
    LET user == get_user_by_email(req[1].email) IN
    (/\ Done(1) /\ req[1].op = "signup_send_code"
     /\ user # NoUser /\ user.password_hash = EmptyHash) =>
        /\ req[1].result.status = 200
        /\ Cardinality({u \in users : u.email = req[1].email}) = 1
        /\ Cardinality(UnusedCodes(req[1].email)) = 1
        /\ \A c \in UnusedCodes(req[1].email) :
              verify_password(req[1].result.code, c.code_hash)

\* C15: the token field of every stored ResetToken is the SHA-256 digest of
\* a plaintext that verify_reset_code generated for its response, never a
\* plaintext; the plaintext a verify_reset_code returned is the one whose
\* digest is stored; and change-password, which looks the record up by the
\* digest of the presented value, rejects a stored digest presented as the
\* reset token and writes nothing.
C15_DigestStored ==
    /\ \A t \in reset_tokens :
          /\ t.token.sha = 1
          /\ t.token.v \in 1 .. Cardinality(reset_tokens)
    /\ \A p \in Procs :
          (Done(p) /\ req[p].op = "verify_reset_code" /\ req[p].result.status = 200) =>
              /\ req[p].result.reset_token.sha = 0
              /\ \E t \in reset_tokens : t.token = hash_token(req[p].result.reset_token)
    /\ \A p \in Procs :
          (/\ Done(p) /\ req[p].op = "reset_password"
           /\ \E t \in reset_tokens : t.token = req[p].reset_token) =>
              /\ req[p].result = ResetInvalidOrExpired
              /\ ~req[p].wrote

\* change-password refused the stored digest of a reset token that is unused
\* and unexpired
C15_Witness ==
    /\ Done(1) /\ req[1].op = "reset_password"
    /\ req[1].result = ResetInvalidOrExpired
    /\ \E t \in reset_tokens :
          t.token = req[1].reset_token /\ ~t.used /\ t.expires_at > now

\* C16: get_current_user answers Unauthenticated to a bearer string that has
\* a bad signature, is malformed, is expired, has no subject claim or one that
\* is no number, or whose subject is the id of no user; it answers with the
\* user the subject names otherwise; it never writes to the store.
C16_GuardContract ==
    (Done(1) /\ req[1].op = "get_current_user") =>
        /\ req[1].cred # "valid" => req[1].result = Unauthenticated
        /\ req[1].cred = "valid" =>
              req[1].result = UserResponse(get_user_by_id(req[1].token.sub))
        /\ ~req[1].wrote

\* C17: when two concurrent logins of one user have both succeeded, the user
\* has at most one refresh token with used = false.
C17_ConcurrentLogins ==
    (/\ Done(1) /\ Done(2)
     /\ req[1].op = "login" /\ req[2].op = "login"
     /\ req[1].result.status = 200 /\ req[2].result.status = 200
     /\ req[1].user_id = req[2].user_id) =>
        Cardinality(UnusedRefreshTokens(req[1].user_id)) <= 1

\* C18: a refresh token that login or refresh is about to persist, and the
\* one signup-verify issues, is the token of no stored row.
C18_FreshTokenString ==
    \A p \in Procs :
        /\ req[p].pc \in {"login_save", "refresh_save"} =>
              \A r \in refresh_tokens : r.token # req[p].tokens.refresh_token
        /\ req[p].pc = "signup_save" =>
              \A r \in refresh_tokens :
                  r.token # create_tokens(req[p].user_id, now).refresh_token

\* C19: signup-verify with the delivered code succeeds, and the refresh token
\* it returns is stored unused and unexpired, so that a refresh presenting it
\* next is accepted as one returned by login is.
C19_SignupTokenUsable ==
    (Done(1) /\ req[1].op = "signup" /\ req[1].cred = "active") =>
        /\ req[1].result.status = 200
        /\ get_active_token(req[1].result.refresh_token) # {}

\* a request of signup-verify or verify-reset-code that succeeded
CodeCallSucceeded(p) ==
    /\ Done(p) /\ req[p].op \in {"signup", "verify_reset_code"}
    /\ req[p].result.status = 200

\* C20: of two concurrent signup-verify or verify-reset-code calls that
\* present the same verification code, at most one succeeds.
C20_OneCodeOneSuccess ==
    ~ /\ CodeCallSucceeded(1) /\ CodeCallSucceeded(2)
      /\ req[1].email = req[2].email /\ req[1].code = req[2].code
      /\ Cardinality({c \in verification_codes : c.email = req[1].email}) = 1

\* the store of InitAfterVerify, as Spec reaches it
AfterVerifyStore ==
    /\ now = 0 /\ req[1] = Idle /\ refresh_tokens = {}
    /\ \E u \in users : u.id = 2 /\ u.email = "b@x.com" /\ u.password_hash = EmptyHash
    /\ verification_codes =
          {[id |-> 1, email |-> "b@x.com", code_hash |-> hash_password("111111"),
            expires_at |-> EMAIL_VERIFICATION_CODE_EXPIRE_MINUTES, used |-> TRUE]}
    /\ reset_tokens =
          {[user_id |-> 2, token |-> hash_token([sha |-> 0, v |-> 1]),
            expires_at |-> RESET_TOKEN_EXPIRE_MINUTES, used |-> FALSE]}

\* C21: of two concurrent change-password calls that present the same reset
\* token, at most one succeeds.
C21_OneResetOneChange ==
    ~ /\ Done(1) /\ Done(2)
      /\ req[1].op = "reset_password" /\ req[2].op = "reset_password"
      /\ req[1].reset_token = req[2].reset_token
      /\ req[1].result = PasswordChanged /\ req[2].result = PasswordChanged

\* C22: the steps of a refresh change nothing but refresh_tokens; the only
\* changes to refresh_tokens are that the presented token's row r gets
\* used = true and, in the step that ends the refresh with success, that one
\* row is added: the returned token, unused, bound to r's user and expiring
\* at now + refresh TTL.  The user returned is r's user.
C22_RefreshFrame ==
    [][(req[1].op = "refresh" \/ req'[1].op = "refresh") =>
         /\ UNCHANGED <<users, verification_codes, reset_tokens>>
         /\ \/ refresh_tokens' = refresh_tokens
            \/ /\ req[1].pc = "refresh_invalidate"
               /\ refresh_tokens' = {IF r.token = req[1].token
                                        THEN [r EXCEPT !.used = TRUE] ELSE r
                                      : r \in refresh_tokens}
            \/ /\ req[1].pc = "refresh_save" /\ req'[1].result.status = 200
               /\ \E r \in refresh_tokens :
                     /\ r.token = req[1].token /\ r.used
                     /\ LET new == [token |-> req'[1].result.refresh_token,
                                    user_id |-> r.user_id,
                                    expires_at |-> now + REFRESH_TOKEN_EXPIRE_MINUTES,
                                    used |-> FALSE]
                        IN /\ new \notin refresh_tokens
                           /\ \A x \in refresh_tokens : x.token # new.token
                           /\ refresh_tokens' = refresh_tokens \cup {new}
                     /\ req'[1].result.email = get_user_by_id(r.user_id).email
         /\ (req'[1].op = "refresh" /\ req'[1].result.status = 200) =>
               (req[1].pc = "refresh_save" \/ UNCHANGED vars \/ UNCHANGED req)]_vars

\* a refresh succeeded: its token is used and the returned one is stored unused
C22_Witness ==
    /\ Done(1) /\ req[1].op = "refresh" /\ req[1].result.status = 200
    /\ \E r \in refresh_tokens : r.token = req[1].token /\ r.used
    /\ \E r \in refresh_tokens : r.token = req[1].result.refresh_token /\ ~r.used
    /\ verification_codes # {}

\* the errors of the service's contract
DomainErrors == {AlreadyExists, InvalidCredentials, CodeInvalidOrExpired,
                 ResetInvalidOrExpired, RefreshInvalidOrExpired}

\* C23: a step that ends a login, signup_send_code, signup, verify_reset_code,
\* reset_password or refresh with AlreadyExists, InvalidCredentials or an
\* InvalidOrExpired error changes no table, and no earlier step of that
\* request changed one: the store is as it was before the call.
C23_DomainErrorWritesNothing ==
    [][\A p \in Procs :
          (/\ req[p].pc # "done" /\ req'[p].pc = "done"
           /\ req'[p].op \in {"login", "signup_send_code", "signup",
                               "verify_reset_code", "reset_password", "refresh"}
           /\ req'[p].result \in DomainErrors) =>
              /\ UNCHANGED <<users, refresh_tokens, verification_codes, reset_tokens>>
              /\ ~req'[p].wrote]_vars

\* verify_reset_code refused a wrong code while the email's code is stored
\* unused and unexpired, and the code is still unused
C23_Witness ==
    /\ Done(1) /\ req[1].op = "verify_reset_code"
    /\ req[1].result = CodeInvalidOrExpired
    /\ \E c \in get_verification_code_by_email(req[1].email) :
          ~verify_password(req[1].code, c.code_hash)

\* request p takes the step that commits a password digest in signup-verify
SignupSetsDigest(p) ==
    req[p].op = "signup" /\ req[p].pc = "signup_update" /\ req'[p].pc = "signup_save"

\* C24: signup-verify never changes the digest of a user whose digest is
\* non-empty, whatever code it was given (a code of request_password_reset
\* included).
C24_SignupKeepsPassword ==
    [][\A p \in Procs : \A u \in users :
          (SignupSetsDigest(p) /\ u.id = req[p].user_id
           /\ u.password_hash # EmptyHash) => u \in users']_vars

\* C25: the digest of a reserved user changes from empty to non-empty only
\* in a step of signup-verify.
C25_OnlySignupActivates ==
    [][\A u \in users :
          (/\ u.password_hash = EmptyHash
           /\ \E v \in users' : v.id = u.id /\ v.password_hash # EmptyHash) =>
              \E p \in Procs : SignupSetsDigest(p) /\ req[p].user_id = u.id]_vars

\* C26: a login for a user whose digest is empty ends with
\* InvalidCredentials whatever the password, returns no token and writes
\* nothing.
C26_ReservedLoginRefused ==
    LET user == get_user_by_email(req[1].email) IN
    (/\ Done(1) /\ req[1].op = "login"
     /\ user # NoUser /\ user.password_hash = EmptyHash) =>
        /\ req[1].result = InvalidCredentials
        /\ req[1].result.access_token = NoToken
        /\ req[1].result.refresh_token = NoToken
        /\ ~req[1].wrote

\* C27: get_current_user answers Unauthenticated to a bearer string that is
\* the token of a stored refresh token row, used or not.
C27_GuardRefusesRefreshTokens ==
    (/\ Done(1) /\ req[1].op = "get_current_user" /\ req[1].cred \in {"valid", "expired", "unknown_user"}
     /\ \E r \in refresh_tokens : r.token = req[1].token) =>
        req[1].result = Unauthenticated

\* C28: in every state, an email that has an unused, unexpired verification
\* code has a user row.
C28_CodeHasUser ==
    \A email \in Emails :
        get_verification_code_by_email(email) # {} => get_user_by_email(email) # NoUser

\* minimum length, a digit, a letter, an uppercase letter, no whitespace
PasswordPolicy(password) ==
    /\ PasswordLen(password) >= PASSWORD_MIN_LENGTH
    /\ password.digit > 0
    /\ password.upper + password.lower > 0
    /\ password.upper > 0
    /\ password.space = 0

\* C29: the signup-verify boundary passes a password only if it meets the
\* password policy, and passes exactly the passwords that the
\* change-password boundary passes.
C29_SignupBoundaryPolicy ==
    (Done(1) /\ req[1].op = "SignupSchema") =>
        /\ req[1].result = Validated => PasswordPolicy(req[1].password)
        /\ req[1].result = Validated <=> ResetPasswordSchema(req[1].password)

====
